---------------------------- MODULE Spec2Model ----------------------------
(***************************************************************************)
(* Model of chunk.Reader (chunk/reader.go): a position-tracking reader     *)
(* that wraps a bufio.Reader over a file, or over a gzip stream of the     *)
(* file, and keeps a byte offset and a newline count.                      *)
(*                                                                         *)
(* The buffered layer (bufio.Reader) is modelled with its buffer window,   *)
(* its pending error and its lastRuneSize, because the results of          *)
(* ReadSlice / ReadString / ReadRune / UnreadRune that chunk.Reader hands  *)
(* to its caller are decided there.  Bytes are numbers 0..255.             *)
(***************************************************************************)
EXTENDS Integers, Sequences, FiniteSets, TLC

(***************************************************************************)
(* Bounds of the model.                                                    *)
(***************************************************************************)
\* longest enumerated file content
MaxLen == 3
\* number of operations applied to one reader
MaxOps == 3
\* size of the bufio buffer (4096 in bufio, scaled down)
BufSize == 4
\* number of bytes peeked for content sniffing (512 in newReader, scaled down)
PeekLen == 3

(***************************************************************************)
(* Bytes.                                                                  *)
(***************************************************************************)
\* '\n', the byte the line counter counts
NL == 10
\* utf8.UTFMax, utf8.RuneSelf, utf8.RuneError
UTFMax == 4
RuneSelf == 128
RuneError == 65533
\* the bytes file contents are built from: '\n', 'a', and the two bytes of
\* U+00E9 (0xC3 0xA9), so that 2-byte runes, truncated runes and stray
\* continuation bytes all occur
Alphabet == {NL, 97, 195, 169}
\* the delimiters callers pass to ReadSlice / ReadString
Delims == {NL, 97}

Min(a, b) == IF a <= b THEN a ELSE b

RECURSIVE SeqsUpTo(_)
SeqsUpTo(n) ==
  IF n = 0 THEN {<<>>}
  ELSE LET S == SeqsUpTo(n - 1)
       IN S \cup {Append(s, x) : s \in {t \in S : Len(t) = n - 1}, x \in Alphabet}

RECURSIVE CountByte(_, _)
CountByte(s, c) ==
  IF Len(s) = 0 THEN 0
  ELSE (IF s[1] = c THEN 1 ELSE 0) + CountByte(Tail(s), c)

\* bytes.IndexByte: 0-based index of the first c in s, -1 if none
RECURSIVE IndexByte(_, _)
IndexByte(s, c) ==
  IF Len(s) = 0 THEN -1
  ELSE IF s[1] = c THEN 0
  ELSE LET i == IndexByte(Tail(s), c) IN IF i < 0 THEN -1 ELSE i + 1

(***************************************************************************)
(* unicode/utf8 on the modelled bytes.                                     *)
(***************************************************************************)
IsCont(b) == b \in 128..191
IsLead2(b) == b \in 194..223

\* utf8.FullRune: does p begin with a full encoding (an invalid encoding is
\* full: it converts as a width-1 error rune)
FullRune(p) ==
  IF Len(p) = 0 THEN FALSE
  ELSE IF p[1] < RuneSelf THEN TRUE
  ELSE IF IsLead2(p[1]) THEN Len(p) >= 2
  ELSE TRUE

\* utf8.DecodeRune on a non-empty p
DecodeRune(p) ==
  IF p[1] < RuneSelf THEN [char |-> p[1], size |-> 1]
  ELSE IF IsLead2(p[1]) /\ Len(p) >= 2 /\ IsCont(p[2])
    THEN [char |-> (p[1] % 32) * 64 + (p[2] % 64), size |-> 2]
  ELSE [char |-> RuneError, size |-> 1]

(***************************************************************************)
(* gzip container: magic and method, flags, a stored block (final-block    *)
(* marker and length, then the literal bytes), and a trailer (checksum and *)
(* size).                                                                  *)
(***************************************************************************)
GzMagic == <<31, 139, 8>>

Checksum(s) == (7 * Len(s) + CountByte(s, NL) + 3 * CountByte(s, 97)) % 256

Gzip(c) == GzMagic \o <<0>> \o <<1, Len(c)>> \o c \o <<Checksum(c), Len(c)>>

\* http.DetectContentType(buf) = "application/x-gzip": the prefix 1F 8B 08
SniffGzip(buf) == Len(buf) >= 3 /\ SubSeq(buf, 1, 3) = GzMagic

\* gzip.NewReader reads the header: it fails when the header is short or
\* does not start with the magic and method
GzHeaderOK(raw) == Len(raw) >= 4 /\ SubSeq(raw, 1, 3) = GzMagic /\ raw[4] = 0

\* the bytes a gzip.Reader delivers for a well-formed container
Gunzip(raw) == SubSeq(raw, 7, 6 + raw[6])

(***************************************************************************)
(* bufio.Reader.  b.src is the byte stream its underlying io.Reader        *)
(* delivers; the buffer holds src[base+1 .. base+w], of which the first r  *)
(* bytes are consumed.  b.chunk is the most bytes one Read of the          *)
(* underlying reader returns, b.eager says whether the Read that returns   *)
(* the last bytes returns io.EOF with them (a gzip.Reader does, an os.File *)
(* returns 0, io.EOF on the following Read).                               *)
(***************************************************************************)
NewBufio(src, chunk, eager) ==
  [src |-> src, base |-> 0, r |-> 0, w |-> 0, err |-> "nil",
   lastRuneSize |-> -1, chunk |-> chunk, eager |-> eager]

\* b.buf[b.r:b.w]
Buffered(b) == SubSeq(b.src, b.base + b.r + 1, b.base + b.w)

\* the stream position of the next byte the reader delivers
Pos(b) == b.base + b.r

\* bufio.Reader.fill: slide the unread bytes to the front, then one Read
Fill(b) ==
  LET s == IF b.r > 0
             THEN [b EXCEPT !.base = @ + b.r, !.w = @ - b.r, !.r = 0]
             ELSE b
      avail == Len(s.src) - (s.base + s.w)
      n == Min(Min(s.chunk, BufSize - s.w), avail)
  IN IF n = 0 THEN [s EXCEPT !.err = "EOF"]
     ELSE [s EXCEPT !.w = @ + n,
                    !.err = IF s.eager /\ n = avail THEN "EOF" ELSE @]

\* bufio.Reader.Peek(n): the next n bytes, without consuming them
RECURSIVE PeekFill(_, _)
PeekFill(b, n) ==
  IF b.w - b.r < n /\ b.w - b.r < BufSize /\ b.err = "nil"
    THEN PeekFill(Fill(b), n)
    ELSE b

Peek(b, n) ==
  LET b0 == [b EXCEPT !.lastRuneSize = -1]
      f == PeekFill(b0, n)
      avail == f.w - f.r
  IN IF n > BufSize
       THEN [b |-> f, data |-> Buffered(f), err |-> "ErrBufferFull"]
     ELSE IF avail < n
       THEN [b |-> [f EXCEPT !.err = "nil"], data |-> Buffered(f),
             err |-> IF f.err = "nil" THEN "ErrBufferFull" ELSE f.err]
     ELSE [b |-> f, data |-> SubSeq(Buffered(f), 1, n), err |-> "nil"]

\* bufio.Reader.ReadSlice: the search loop, s the search start index
RECURSIVE SliceLoop(_, _, _)
SliceLoop(b, delim, s) ==
  LET buf == Buffered(b)
      i == IndexByte(SubSeq(buf, s + 1, Len(buf)), delim)
  IN IF i >= 0
       THEN [b |-> [b EXCEPT !.r = @ + s + i + 1],
             data |-> SubSeq(buf, 1, s + i + 1), err |-> "nil"]
     ELSE IF b.err # "nil"
       THEN [b |-> [b EXCEPT !.r = b.w, !.err = "nil"],
             data |-> buf, err |-> b.err]
     ELSE IF b.w - b.r >= BufSize
       THEN [b |-> [b EXCEPT !.r = b.w], data |-> buf, err |-> "ErrBufferFull"]
     ELSE SliceLoop(Fill(b), delim, b.w - b.r)

\* faulty variant: the delimiter that ends the line is not part of the result
BufReadSliceDropsDelimiter(b, delim) ==
  LET res == SliceLoop(b, delim, 0)
      out == IF res.err = "nil"
               THEN [res EXCEPT !.data = SubSeq(@, 1, Len(@) - 1)]
               ELSE res
  IN IF Len(out.data) > 0
       THEN [out EXCEPT !.b.lastRuneSize = -1]
       ELSE out

\* bufio.Reader.ReadSlice: a non-empty result invalidates UnreadRune
BufReadSlice(b, delim) ==
  LET res == SliceLoop(b, delim, 0)
  IN IF Len(res.data) > 0
       THEN [res EXCEPT !.b.lastRuneSize = -1]
       ELSE res

\* bufio.Reader.ReadString (collectFragments): ReadSlice again while the
\* buffer fills up before the delimiter, accumulating the fragments
RECURSIVE CollectFragments(_, _, _)
CollectFragments(b, delim, acc) ==
  LET res == BufReadSlice(b, delim)
  IN IF res.err = "ErrBufferFull"
       THEN CollectFragments(res.b, delim, acc \o res.data)
       ELSE [b |-> res.b, data |-> acc \o res.data, err |-> res.err]

BufReadString(b, delim) == CollectFragments(b, delim, <<>>)

\* bufio.Reader.ReadRune: fill until a full rune is buffered
RECURSIVE RuneFill(_)
RuneFill(b) ==
  IF /\ b.r + UTFMax > b.w
     /\ ~FullRune(Buffered(b))
     /\ b.err = "nil"
     /\ b.w - b.r < BufSize
    THEN RuneFill(Fill(b))
    ELSE b

BufReadRune(b) ==
  LET f == RuneFill(b)
  IN IF f.r = f.w
       THEN [b |-> [f EXCEPT !.lastRuneSize = -1, !.err = "nil"],
             char |-> 0, size |-> 0, err |-> f.err]
       ELSE LET d == DecodeRune(Buffered(f))
            IN [b |-> [f EXCEPT !.r = @ + d.size, !.lastRuneSize = d.size],
                char |-> d.char, size |-> d.size, err |-> "nil"]

\* bufio.Reader.UnreadRune
BufUnreadRune(b) ==
  IF b.lastRuneSize < 0 \/ b.r < b.lastRuneSize
    THEN [b |-> b, err |-> "ErrInvalidUnreadRune"]
    ELSE [b |-> [b EXCEPT !.r = @ - b.lastRuneSize, !.lastRuneSize = -1],
          err |-> "nil"]

(***************************************************************************)
(* chunk.Reader: the buffered reader rd, offset, line, compressed,         *)
(* filename, and the rollback slot prevOffset / prevLine.                  *)
(***************************************************************************)
Offset(r) == r.offset

LineCount(r) == r.line

\* faulty variant: ReadSlice leaves the rollback slot alone
ReadSliceNoSnapshot(r, delim) ==
  LET res == BufReadSlice(r.rd, delim)
  IN [r |-> [r EXCEPT !.rd = res.b,
                      !.offset = @ + Len(res.data),
                      !.line = @ + CountByte(res.data, NL)],
      data |-> res.data, err |-> res.err]

\* faulty variant: ReadSlice counts one line per call instead of one per newline
ReadSliceCountsCalls(r, delim) ==
  LET res == BufReadSlice(r.rd, delim)
  IN [r |-> [r EXCEPT !.prevOffset = r.offset, !.prevLine = r.line,
                      !.rd = res.b,
                      !.offset = @ + Len(res.data),
                      !.line = @ + 1],
      data |-> res.data, err |-> res.err]

ReadSlice(r, delim) ==
  LET res == BufReadSlice(r.rd, delim)
  IN [r |-> [r EXCEPT !.prevOffset = r.offset, !.prevLine = r.line,
                      !.rd = res.b,
                      !.offset = @ + Len(res.data),
                      !.line = @ + CountByte(res.data, NL)],
      data |-> res.data, err |-> res.err]

\* faulty variant: ReadString adds one line per call that returned a delimiter
ReadStringCountsCalls(r, delim) ==
  LET res == BufReadString(r.rd, delim)
  IN [r |-> [r EXCEPT !.prevOffset = r.offset, !.prevLine = r.line,
                      !.rd = res.b,
                      !.offset = @ + Len(res.data),
                      !.line = IF res.err = "nil" THEN @ + 1 ELSE @],
      data |-> res.data, err |-> res.err]

ReadString(r, delim) ==
  LET res == BufReadString(r.rd, delim)
  IN [r |-> [r EXCEPT !.prevOffset = r.offset, !.prevLine = r.line,
                      !.rd = res.b,
                      !.offset = @ + Len(res.data),
                      !.line = @ + CountByte(res.data, NL)],
      data |-> res.data, err |-> res.err]

\* faulty variant: ReadRune counts characters, not bytes
ReadRuneCountsChars(r) ==
  LET res == BufReadRune(r.rd)
  IN [r |-> [r EXCEPT !.prevOffset = r.offset, !.prevLine = r.line,
                      !.rd = res.b,
                      !.offset = IF res.size > 0 THEN @ + 1 ELSE @,
                      !.line = IF res.char = NL THEN @ + 1 ELSE @],
      char |-> res.char, size |-> res.size, err |-> res.err]

ReadRune(r) ==
  LET res == BufReadRune(r.rd)
  IN [r |-> [r EXCEPT !.prevOffset = r.offset, !.prevLine = r.line,
                      !.rd = res.b,
                      !.offset = @ + res.size,
                      !.line = IF res.char = NL THEN @ + 1 ELSE @],
      char |-> res.char, size |-> res.size, err |-> res.err]

\* faulty variant: UnreadRune pushes the character back but keeps the counters
UnreadRuneKeepsCounters(r) ==
  LET res == BufUnreadRune(r.rd)
  IN [r |-> [r EXCEPT !.prevOffset = 0, !.prevLine = 0, !.rd = res.b],
      err |-> res.err]

UnreadRune(r) ==
  LET res == BufUnreadRune(r.rd)
  IN [r |-> [r EXCEPT !.offset = r.prevOffset, !.line = r.prevLine,
                      !.prevOffset = 0, !.prevLine = 0,
                      !.rd = res.b],
      err |-> res.err]

(***************************************************************************)
(* Opening.  A file is a name <<stem, extension>>, whether it exists, and  *)
(* its raw bytes.                                                          *)
(***************************************************************************)
\* filepath.Ext
Ext(name) == name[2]

\* x.Check / x.CheckfNoTrace: a non-nil error ends the construction
Check(err) == err # "nil"

CheckfNoTrace(err) == err # "nil"

NoReader == [rd |-> NewBufio(<<>>, 1, FALSE), offset |-> 0, line |-> 0,
             compressed |-> FALSE, filename |-> <<"", "">>,
             prevOffset |-> 0, prevLine |-> 0]

\* faulty variant: gzip is detected but the reader keeps reading the raw bytes
newReaderNoGunzip(f, chunk, eager) ==
  LET byExt == Ext(f.name) = ".gz"
      plain == NewBufio(f.raw, chunk, FALSE)
      pk == Peek(plain, PeekLen)
      wantGz == IF byExt THEN TRUE ELSE SniffGzip(pk.data)
      gzErr == IF GzHeaderOK(f.raw) THEN "nil" ELSE "gzip: invalid header"
      base == [NoReader EXCEPT !.filename = f.name]
  IN IF ~wantGz
       THEN [ok |-> TRUE, failure |-> "none", sniffed |-> TRUE,
             r |-> [base EXCEPT !.rd = pk.b],
             gz |-> "none", cleanup |-> "f",
             layers |-> <<"file", "bufio">>]
     ELSE IF CheckfNoTrace(gzErr)
       THEN [ok |-> FALSE, failure |-> "DecompressionInitFailure",
             sniffed |-> ~byExt, r |-> NoReader,
             gz |-> "none", cleanup |-> "none", layers |-> <<>>]
     ELSE [ok |-> TRUE, failure |-> "none", sniffed |-> ~byExt,
           r |-> [base EXCEPT !.rd = NewBufio(f.raw, chunk, eager),
                              !.compressed = TRUE],
           gz |-> "open", cleanup |-> "f+gzr",
           layers |-> IF byExt THEN <<"file", "gzip", "bufio">>
                      ELSE <<"file", "bufio", "gzip", "bufio">>]

\* faulty variant: the extension is not looked at, the sniffing result alone
\* decides whether a gzip stream is attached
newReaderSniffsAlways(f, chunk, eager) ==
  LET plain == NewBufio(f.raw, chunk, FALSE)
      pk == Peek(plain, PeekLen)
      gzErr == IF GzHeaderOK(f.raw) THEN "nil" ELSE "gzip: invalid header"
      base == [NoReader EXCEPT !.filename = f.name]
  IN IF ~SniffGzip(pk.data)
       THEN [ok |-> TRUE, failure |-> "none", sniffed |-> TRUE,
             r |-> [base EXCEPT !.rd = pk.b],
             gz |-> "none", cleanup |-> "f",
             layers |-> <<"file", "bufio">>]
     ELSE IF CheckfNoTrace(gzErr)
       THEN [ok |-> FALSE, failure |-> "DecompressionInitFailure",
             sniffed |-> TRUE, r |-> NoReader,
             gz |-> "none", cleanup |-> "none", layers |-> <<>>]
     ELSE [ok |-> TRUE, failure |-> "none", sniffed |-> TRUE,
           r |-> [base EXCEPT !.rd = NewBufio(Gunzip(f.raw), chunk, eager),
                              !.compressed = TRUE],
           gz |-> "open", cleanup |-> "f+gzr",
           layers |-> <<"file", "bufio", "gzip", "bufio">>]

\* faulty variant: the bytes handed to the content sniffer are read, not
\* peeked, so the reader starts behind them
newReaderPeekConsumes(f, chunk, eager) ==
  LET byExt == Ext(f.name) = ".gz"
      plain == NewBufio(f.raw, chunk, FALSE)
      pk == Peek(plain, PeekLen)
      wantGz == IF byExt THEN TRUE ELSE SniffGzip(pk.data)
      gzErr == IF GzHeaderOK(f.raw) THEN "nil" ELSE "gzip: invalid header"
      base == [NoReader EXCEPT !.filename = f.name]
  IN IF ~wantGz
       THEN [ok |-> TRUE, failure |-> "none", sniffed |-> TRUE,
             r |-> [base EXCEPT !.rd = [pk.b EXCEPT !.r = @ + Len(pk.data)]],
             gz |-> "none", cleanup |-> "f",
             layers |-> <<"file", "bufio">>]
     ELSE IF CheckfNoTrace(gzErr)
       THEN [ok |-> FALSE, failure |-> "DecompressionInitFailure",
             sniffed |-> ~byExt, r |-> NoReader,
             gz |-> "none", cleanup |-> "none", layers |-> <<>>]
     ELSE [ok |-> TRUE, failure |-> "none", sniffed |-> ~byExt,
           r |-> [base EXCEPT !.rd = NewBufio(Gunzip(f.raw), chunk, eager),
                              !.compressed = TRUE],
           gz |-> "open", cleanup |-> "f+gzr",
           layers |-> IF byExt THEN <<"file", "gzip", "bufio">>
                      ELSE <<"file", "bufio", "gzip", "bufio">>]

\* faulty variant: the gzip stream is attached but the flag stays false
newReaderForgetsFlag(f, chunk, eager) ==
  LET byExt == Ext(f.name) = ".gz"
      plain == NewBufio(f.raw, chunk, FALSE)
      pk == Peek(plain, PeekLen)
      wantGz == IF byExt THEN TRUE ELSE SniffGzip(pk.data)
      gzErr == IF GzHeaderOK(f.raw) THEN "nil" ELSE "gzip: invalid header"
      base == [NoReader EXCEPT !.filename = f.name]
  IN IF ~wantGz
       THEN [ok |-> TRUE, failure |-> "none", sniffed |-> TRUE,
             r |-> [base EXCEPT !.rd = pk.b],
             gz |-> "none", cleanup |-> "f",
             layers |-> <<"file", "bufio">>]
     ELSE IF CheckfNoTrace(gzErr)
       THEN [ok |-> FALSE, failure |-> "DecompressionInitFailure",
             sniffed |-> ~byExt, r |-> NoReader,
             gz |-> "none", cleanup |-> "none", layers |-> <<>>]
     ELSE [ok |-> TRUE, failure |-> "none", sniffed |-> ~byExt,
           r |-> [base EXCEPT !.rd = NewBufio(Gunzip(f.raw), chunk, eager)],
           gz |-> "open", cleanup |-> "f+gzr",
           layers |-> IF byExt THEN <<"file", "gzip", "bufio">>
                      ELSE <<"file", "bufio", "gzip", "bufio">>]

\* newReader(f): the reader, the layers it created and the cleanup closure
\* ("f" closes the file; "f+gzr" closes the file and the gzip stream)
newReader(f, chunk, eager) ==
  LET byExt == Ext(f.name) = ".gz"
      plain == NewBufio(f.raw, chunk, FALSE)
      pk == Peek(plain, PeekLen)
      wantGz == IF byExt THEN TRUE ELSE SniffGzip(pk.data)
      gzErr == IF GzHeaderOK(f.raw) THEN "nil" ELSE "gzip: invalid header"
      base == [NoReader EXCEPT !.filename = f.name]
  IN IF ~wantGz
       THEN [ok |-> TRUE, failure |-> "none", sniffed |-> TRUE,
             r |-> [base EXCEPT !.rd = pk.b],
             gz |-> "none", cleanup |-> "f",
             layers |-> <<"file", "bufio">>]
     ELSE IF CheckfNoTrace(gzErr)
       THEN [ok |-> FALSE, failure |-> "DecompressionInitFailure",
             sniffed |-> ~byExt, r |-> NoReader,
             gz |-> "none", cleanup |-> "none", layers |-> <<>>]
     ELSE [ok |-> TRUE, failure |-> "none", sniffed |-> ~byExt,
           r |-> [base EXCEPT !.rd = NewBufio(Gunzip(f.raw), chunk, eager),
                              !.compressed = TRUE],
           gz |-> "open", cleanup |-> "f+gzr",
           layers |-> IF byExt THEN <<"file", "gzip", "bufio">>
                      ELSE <<"file", "bufio", "gzip", "bufio">>]

\* faulty variant: the error of os.Open is dropped
OpenFileIgnoresError(f) ==
  IF f.name = <<"-", "">>
    THEN [f |-> [f EXCEPT !.name = <<"/dev/stdin", "">>], err |-> "nil"]
    ELSE [f |-> f, err |-> "nil"]

\* NewReader(file): "-" binds standard input, anything else is opened
OpenFile(f) ==
  IF f.name = <<"-", "">>
    THEN [f |-> [f EXCEPT !.name = <<"/dev/stdin", "">>], err |-> "nil"]
    ELSE [f |-> f, err |-> IF f.exists THEN "nil" ELSE "open: no such file"]

(***************************************************************************)
(* State.                                                                  *)
(***************************************************************************)
VARIABLES
  file,      \* the named source: name, exists, raw bytes
  chunk,     \* most bytes one Read of the source returns
  eager,     \* the gzip stream returns io.EOF together with its last bytes
  status,    \* "init", "open", "fatal" (construction aborted), "closed"
  failure,   \* which check aborted the construction
  fHandle,   \* the os.File: "none", "open", "closed"
  gzHandle,  \* the gzip.Reader: "none", "open", "closed"
  cleanup,   \* the closure NewReader returned: "none", "f", "f+gzr"
  sniffed,   \* the content was peeked at and content-type detected
  rd,        \* the chunk.Reader
  twin,      \* a chunk.Reader opened on the same content in a plain file
  hist,      \* the last two calls on the reader, with what they returned
  lastRune,  \* the counters as they stood before the latest ReadRune call
  undone,    \* UnreadRune has been called on the reader
  nops,      \* number of calls made on the reader
  layers,    \* what newReader stacked on the file, bottom first
  runes,     \* while every call so far was ReadRune: the sum of the sizes
             \* returned and the number of newline characters returned
  got        \* while nothing was pushed back: the bytes delivered so far

vars == <<file, chunk, eager, status, failure, fHandle, gzHandle, cleanup,
          sniffed, rd, twin, hist, lastRune, undone, nops, layers, runes,
          got>>

\* the input of the scenario: "a\nbb\nccc"
Scenario == <<97, NL, 98, 98, NL, 99, 99, 99>>

RECURSIVE Repeat(_, _)
Repeat(c, n) == IF n = 0 THEN <<>> ELSE <<c>> \o Repeat(c, n - 1)

\* a last line that fills the buffer exactly, and a line longer than it
FullLine == Repeat(97, BufSize)

LongLine == Repeat(97, BufSize + 1) \o <<NL>>

Contents == SeqsUpTo(MaxLen) \cup {Scenario, FullLine, LongLine}

\* a gzip container cut off inside its header
TruncatedGz == GzMagic

\* the content of a file, whether stored plain or compressed
Content(raw) == IF GzHeaderOK(raw) THEN Gunzip(raw) ELSE raw

PlainName == <<"data", ".rdf">>
GzName == <<"data.rdf", ".gz">>
Stdin == <<"-", "">>

\* a Read of a regular file, or of the gzip stream, fills the buffer it is
\* given while bytes remain; standard input (a pipe) delivers byte by byte
ChunkOf(f) == IF f.name = Stdin THEN 1 ELSE BufSize

\* the sources: plain files and standard input, gzip files with and without
\* the extension, plain text under a .gz name, a truncated gzip file, and a
\* name that does not exist
Sources ==
  [name : {PlainName, Stdin, GzName}, exists : {TRUE}, raw : Contents]
    \cup [name : {PlainName, GzName}, exists : {TRUE},
          raw : {Gzip(c) : c \in Contents}]
    \cup [name : {PlainName, Stdin}, exists : {TRUE}, raw : {TruncatedGz}]
    \cup [name : {PlainName, GzName}, exists : {FALSE}, raw : {<<>>}]

Init ==
  /\ file \in Sources
  /\ chunk = ChunkOf(file)
  /\ eager \in IF GzHeaderOK(file.raw) THEN BOOLEAN ELSE {FALSE}
  /\ status = "init"
  /\ failure = "none"
  /\ fHandle = "none"
  /\ gzHandle = "none"
  /\ cleanup = "none"
  /\ sniffed = FALSE
  /\ rd = NoReader
  /\ twin = NoReader
  /\ hist = <<>>
  /\ lastRune = [valid |-> FALSE, offset |-> 0, line |-> 0]
  /\ undone = FALSE
  /\ nops = 0
  /\ layers = <<>>
  /\ runes = [only |-> TRUE, width |-> 0, newlines |-> 0]
  /\ got = <<>>

\* the twin: the same content, uncompressed, in a file without .gz
TwinFile == [name |-> PlainName, exists |-> TRUE, raw |-> Content(file.raw)]

\* NewReader(file)
NewReader ==
  /\ status = "init"
  /\ LET o == OpenFile(file)
     IN IF Check(o.err)
          THEN /\ status' = "fatal"
               /\ failure' = "OpenFailure"
               /\ UNCHANGED <<fHandle, gzHandle, cleanup, sniffed, rd, twin,
                              layers>>
          ELSE LET n == newReader(o.f, chunk, eager)
               IN /\ status' = IF n.ok THEN "open" ELSE "fatal"
                  /\ failure' = n.failure
                  /\ fHandle' = "open"
                  /\ gzHandle' = n.gz
                  /\ cleanup' = n.cleanup
                  /\ sniffed' = n.sniffed
                  /\ rd' = n.r
                  /\ layers' = n.layers
                  /\ twin' = IF n.ok
                               THEN newReader(TwinFile, chunk, FALSE).r
                               ELSE NoReader
  /\ UNCHANGED <<file, chunk, eager, hist, lastRune, undone, nops, runes, got>>

\* faulty variant: the second closure is never installed, only the file is closed
RunCleanupFileOnly(kind, f, gz) == [f |-> "closed", gz |-> gz]

\* what the cleanup closure does to the two handles
RunCleanup(kind, f, gz) ==
  IF kind = "f+gzr" THEN [f |-> "closed", gz |-> "closed"]
  ELSE [f |-> "closed", gz |-> gz]

\* the caller invokes the cleanup closure
Cleanup ==
  /\ status = "open"
  /\ status' = "closed"
  /\ LET c == RunCleanup(cleanup, fHandle, gzHandle)
     IN fHandle' = c.f /\ gzHandle' = c.gz
  /\ UNCHANGED <<file, chunk, eager, failure, cleanup, sniffed, rd, twin,
                 hist, lastRune, undone, nops, layers, runes, got>>

\* keep the last two calls
Remember(h, e) ==
  IF Len(h) < 2 THEN Append(h, e) ELSE Append(Tail(h), e)

\* a result with every field a call can return
Pad(res) ==
  [r |-> res.r, err |-> res.err,
   data |-> IF "data" \in DOMAIN res THEN res.data ELSE <<>>,
   char |-> IF "char" \in DOMAIN res THEN res.char ELSE 0,
   size |-> IF "size" \in DOMAIN res THEN res.size ELSE 0]

\* what one call returned, on the reader and on its twin, and what the other
\* line-reading method would have returned from the same reader state
Entry(op, delim, res, tres, alt, before) ==
  [op |-> op, delim |-> delim,
   data |-> res.data, char |-> res.char, size |-> res.size, err |-> res.err,
   off0 |-> before.offset, line0 |-> before.line, pos0 |-> Pos(before.rd),
   off1 |-> res.r.offset, line1 |-> res.r.line, pos1 |-> Pos(res.r.rd),
   tdata |-> tres.data, tchar |-> tres.char, tsize |-> tres.size,
   terr |-> tres.err, toff1 |-> tres.r.offset, tline1 |-> tres.r.line,
   adata |-> alt.data, aerr |-> alt.err,
   aoff1 |-> alt.r.offset, aline1 |-> alt.r.line]

\* the bytes a call handed to the caller: the slice or string it returned,
\* or the bytes of the stream that ReadRune decoded into its character
Delivered(op, res, before) ==
  IF op = "ReadRune"
    THEN SubSeq(before.rd.src, Pos(before.rd) + 1, Pos(before.rd) + res.size)
    ELSE res.data

\* one call on the open reader (and the same call on its twin)
Call(op, delim, res, tres, alt) ==
  /\ status = "open"
  /\ nops < MaxOps
  /\ rd' = res.r
  /\ twin' = tres.r
  /\ hist' = Remember(hist,
                      Entry(op, delim, Pad(res), Pad(tres), Pad(alt), rd))
  /\ lastRune' = IF op = "ReadRune"
                   THEN [valid |-> TRUE, offset |-> rd.offset, line |-> rd.line]
                   ELSE lastRune
  /\ undone' = (undone \/ op = "UnreadRune")
  /\ nops' = nops + 1
  /\ runes' = IF runes.only /\ op = "ReadRune"
                THEN [only |-> TRUE,
                      width |-> runes.width + res.size,
                      newlines |-> runes.newlines
                                     + (IF res.size > 0 /\ res.char = NL
                                          THEN 1 ELSE 0)]
                ELSE [only |-> FALSE, width |-> 0, newlines |-> 0]
  /\ got' = IF undone \/ op = "UnreadRune"
              THEN <<>>
              ELSE got \o Delivered(op, Pad(res), rd)
  /\ UNCHANGED <<file, chunk, eager, status, failure, fHandle, gzHandle,
                 cleanup, sniffed, layers>>

DoReadSlice ==
  \E d \in Delims :
    Call("ReadSlice", d, ReadSlice(rd, d), ReadSlice(twin, d),
         ReadString(rd, d))

DoReadString ==
  \E d \in Delims :
    Call("ReadString", d, ReadString(rd, d), ReadString(twin, d),
         ReadSlice(rd, d))

\* the calls that do not read a line have no counterpart
NoAlt == [r |-> NoReader, err |-> "nil"]

DoReadRune == Call("ReadRune", 0, ReadRune(rd), ReadRune(twin), NoAlt)

DoUnreadRune == Call("UnreadRune", 0, UnreadRune(rd), UnreadRune(twin), NoAlt)

Next ==
  \/ NewReader
  \/ DoReadSlice
  \/ DoReadString
  \/ DoReadRune
  \/ DoUnreadRune
  \/ Cleanup

Spec == Init /\ [][Next]_vars

(***************************************************************************)
(* Helpers for the properties.                                             *)
(***************************************************************************)
\* the latest call and the one before it
Last == hist[Len(hist)]

Prev == hist[Len(hist) - 1]

HasLast == Len(hist) >= 1

HasPrev == Len(hist) >= 2

\* the bytes of the stream from position p on
Rest(p) == SubSeq(rd.rd.src, p + 1, Len(rd.rd.src))

IsOpened == status \in {"open", "closed"}

\* the stream ends without a trailing delimiter d
NoTrailingDelim(d) ==
  Len(rd.rd.src) > 0 /\ rd.rd.src[Len(rd.rd.src)] # d

(***************************************************************************)
(* C1: in every state reached by any sequence of ReadSlice, ReadString,    *)
(* ReadRune and UnreadRune calls, failed calls included, Offset() is the   *)
(* number of bytes delivered and not pushed back, i.e. the stream position *)
(* of the next byte to be delivered.                                       *)
(***************************************************************************)
OffsetIsBytesDelivered == IsOpened => Offset(rd) = Pos(rd.rd)

(***************************************************************************)
(* C2: in every such state LineCount() is the number of newline bytes      *)
(* among the bytes delivered and not pushed back.                          *)
(***************************************************************************)
LineCountIsNewlinesDelivered ==
  IsOpened => LineCount(rd) = CountByte(SubSeq(rd.rd.src, 1, Pos(rd.rd)), NL)

(***************************************************************************)
(* C3: round trip.  After a successful ReadRune followed immediately by    *)
(* UnreadRune, the undo returned no error, Offset(), LineCount() and the   *)
(* stream position are what they were before the read, and the next        *)
(* ReadRune returns the same character with the same width.                *)
(***************************************************************************)
RoundTripRestores ==
  (HasPrev /\ Prev.op = "ReadRune" /\ Prev.err = "nil" /\ Last.op = "UnreadRune")
    => /\ Last.err = "nil"
       /\ Offset(rd) = Prev.off0
       /\ LineCount(rd) = Prev.line0
       /\ Pos(rd.rd) = Prev.pos0
       /\ LET again == ReadRune(rd)
          IN /\ again.err = "nil"
             /\ again.char = Prev.char
             /\ again.size = Prev.size

\* a two-byte character was read and pushed back
RoundTripWitness ==
  /\ HasPrev
  /\ Prev.op = "ReadRune" /\ Prev.err = "nil" /\ Prev.size = 2
  /\ Prev.off0 > 0
  /\ Last.op = "UnreadRune" /\ Last.err = "nil"

(***************************************************************************)
(* C4: UnreadRune returns an error whenever the call immediately before it *)
(* was not a successful ReadRune: no call at all, a ReadSlice or           *)
(* ReadString, a failed ReadRune, or another UnreadRune.                   *)
(***************************************************************************)
UndoFailsUnlessAfterReadRune ==
  (/\ HasLast
   /\ Last.op = "UnreadRune"
   /\ ~(HasPrev /\ Prev.op = "ReadRune" /\ Prev.err = "nil"))
    => Last.err # "nil"

SliceRun ==
  /\ HasPrev
  /\ Prev.op = "ReadSlice" /\ Last.op = "ReadSlice"
  /\ Prev.delim = Last.delim
  /\ NoTrailingDelim(Last.delim)

\* once ReadSlice has returned io.EOF, the next ReadSlice returns nothing
\* more, io.EOF again, and leaves the counters alone
AfterEndOfStreamNothing ==
  (SliceRun /\ Prev.err = "EOF")
    => /\ Last.data = <<>>
       /\ Last.err = "EOF"
       /\ Last.off1 = Last.off0
       /\ Last.line1 = Last.line0

(***************************************************************************)
(* C6 as claimed: on a stream that ends without a trailing delimiter,      *)
(* repeated ReadSlice calls return the remaining non-empty bytes together  *)
(* with io.EOF exactly once (the first io.EOF carries bytes), and every    *)
(* later ReadSlice returns an empty result with io.EOF and leaves Offset() *)
(* and LineCount() unchanged.                                              *)
(***************************************************************************)
TailOnceWithEndOfStream ==
  /\ (/\ nops = 1 /\ HasLast /\ Last.op = "ReadSlice"
      /\ NoTrailingDelim(Last.delim) /\ Last.err = "EOF")
       => Last.data # <<>>
  /\ (SliceRun /\ Prev.err # "EOF" /\ Last.err = "EOF") => Last.data # <<>>
  /\ AfterEndOfStreamNothing

(***************************************************************************)
(* C6 amended: on such a stream repeated ReadSlice calls return a          *)
(* non-empty result together with io.EOF at most once; the first io.EOF    *)
(* carries the remaining bytes unless the ReadSlice before it returned a   *)
(* full buffer of them with ErrBufferFull, in which case it is empty; and  *)
(* every ReadSlice after one that returned io.EOF returns an empty result  *)
(* with io.EOF and leaves Offset() and LineCount() unchanged.              *)
(***************************************************************************)
TailAtMostOnceWithEndOfStream ==
  /\ (/\ nops = 1 /\ HasLast /\ Last.op = "ReadSlice"
      /\ NoTrailingDelim(Last.delim) /\ Last.err = "EOF")
       => Last.data # <<>>
  /\ (SliceRun /\ Prev.err # "EOF" /\ Last.err = "EOF" /\ Last.data = <<>>)
       => (Prev.err = "ErrBufferFull" /\ Len(Prev.data) = BufSize)
  /\ AfterEndOfStreamNothing

\* the tail came with io.EOF, and the next ReadSlice returned nothing
TailThenNothingWitness ==
  /\ SliceRun
  /\ Prev.err = "EOF" /\ Prev.data # <<>>
  /\ Last.err = "EOF" /\ Last.data = <<>>
  /\ Last.off1 = Len(rd.rd.src)

\* "a\nbb\nccc" read by ReadSlice('\n'): "a\n", "bb\n", then "ccc" with
\* io.EOF, ending with LineCount() = 2 and Offset() = 8
ScenarioHolds ==
  /\ (rd.rd.src = Scenario /\ HasLast /\ Last.op = "ReadSlice" /\ Last.delim = NL)
       => /\ Last.pos0 = 0 => (Last.data = <<97, NL>> /\ Last.err = "nil")
          /\ Last.pos0 = 2 => (Last.data = <<98, 98, NL>> /\ Last.err = "nil")
          /\ Last.pos0 = 5 => (Last.data = <<99, 99, 99>> /\ Last.err = "EOF")
  /\ (/\ rd.rd.src = Scenario /\ nops = 3 /\ HasPrev
      /\ Prev.op = "ReadSlice" /\ Prev.delim = NL
      /\ Last.op = "ReadSlice" /\ Last.delim = NL
      /\ Prev.pos0 = 2 /\ Prev.off0 = 2 /\ Prev.line0 = 1)
       => (Offset(rd) = 8 /\ LineCount(rd) = 2)

(***************************************************************************)
(* C7 as claimed: every ReadSlice call returns, with no error, the bytes   *)
(* from the current position through the first delimiter, however far     *)
(* away it is; with no delimiter left it returns all remaining bytes with  *)
(* io.EOF; and the scenario holds.                                         *)
(***************************************************************************)
ReadSliceThroughDelimiter ==
  /\ (HasLast /\ Last.op = "ReadSlice")
       => LET rest == Rest(Last.pos0)
              i == IndexByte(rest, Last.delim)
          IN IF i >= 0
               THEN Last.data = SubSeq(rest, 1, i + 1) /\ Last.err = "nil"
               ELSE Last.data = rest /\ Last.err = "EOF"
  /\ ScenarioHolds

(***************************************************************************)
(* C7 amended: a ReadSlice call returns, with no error, the bytes from the *)
(* current position through the first delimiter when that delimiter is     *)
(* among the next BufSize bytes; with no delimiter left and fewer than     *)
(* BufSize bytes remaining it returns them all with io.EOF; otherwise it   *)
(* returns the next BufSize bytes with ErrBufferFull (with io.EOF when     *)
(* they are the last bytes and the source reported its end with them);     *)
(* and the scenario holds.                                                 *)
(***************************************************************************)
ReadSliceThroughDelimiterWithinBuffer ==
  /\ (HasLast /\ Last.op = "ReadSlice")
       => LET rest == Rest(Last.pos0)
              i == IndexByte(rest, Last.delim)
          IN IF i >= 0 /\ i + 1 <= BufSize
               THEN Last.data = SubSeq(rest, 1, i + 1) /\ Last.err = "nil"
             ELSE IF Len(rest) < BufSize
               THEN Last.data = rest /\ Last.err = "EOF"
             ELSE /\ Last.data = SubSeq(rest, 1, BufSize)
                  /\ \/ Last.err = "ErrBufferFull"
                     \/ Last.err = "EOF" /\ Len(rest) = BufSize
  /\ ScenarioHolds

\* the scenario ran to its end
ScenarioWitness ==
  /\ rd.rd.src = Scenario /\ nops = 3 /\ HasPrev
  /\ Prev.op = "ReadSlice" /\ Prev.data = <<98, 98, NL>> /\ Prev.err = "nil"
  /\ Last.op = "ReadSlice" /\ Last.data = <<99, 99, 99>> /\ Last.err = "EOF"
  /\ Offset(rd) = 8 /\ LineCount(rd) = 2

\* a call returned the same bytes and left the same counters on the reader
\* of the compressed file as on the reader of the plain file
SameBytes(e) ==
  /\ e.data = e.tdata
  /\ e.char = e.tchar
  /\ e.size = e.tsize
  /\ e.off1 = e.toff1
  /\ e.line1 = e.tline1

(***************************************************************************)
(* C8 as claimed: a reader on the gzip form of a content (with or without  *)
(* the .gz extension) and a reader on the plain content return the same    *)
(* bytes and the same error from every read call of the same sequence, and *)
(* have equal Offset() and LineCount() after every call.                   *)
(***************************************************************************)
GzipIndistinguishable ==
  (rd.compressed /\ ~undone)
    => \A k \in 1..Len(hist) : SameBytes(hist[k]) /\ hist[k].err = hist[k].terr

(***************************************************************************)
(* C8 amended: under the same sequence of ReadSlice, ReadString and        *)
(* ReadRune calls the two readers return the same bytes and characters and *)
(* have equal Offset() and LineCount() after every call, and they return   *)
(* the same error except that a ReadSlice which returns the last BufSize   *)
(* bytes of the stream returns io.EOF on one and ErrBufferFull on the      *)
(* other.                                                                  *)
(***************************************************************************)
GzipSameBytesAndCounters ==
  (rd.compressed /\ ~undone)
    => \A k \in 1..Len(hist) :
         /\ SameBytes(hist[k])
         /\ \/ hist[k].err = hist[k].terr
            \/ /\ hist[k].op = "ReadSlice"
               /\ hist[k].err = "EOF" /\ hist[k].terr = "ErrBufferFull"
               /\ Len(hist[k].data) = BufSize
               /\ hist[k].pos1 = Len(rd.rd.src)

\* a sniffed gzip file delivered a two-byte character and then a line
GzipReadWitness ==
  /\ rd.compressed /\ sniffed /\ ~undone
  /\ HasPrev
  /\ Prev.op = "ReadRune" /\ Prev.size = 2
  /\ Last.op = "ReadSlice" /\ Last.err = "nil" /\ Last.line1 = 1

(***************************************************************************)
(* C9: NewReader on a name that cannot be opened fails with the open       *)
(* failure before any layer is constructed and before any read of the      *)
(* source: no reader, no cleanup closure, no sniffing, no gzip stream.     *)
(***************************************************************************)
OpenFailureBeforeAnyLayer ==
  (status # "init" /\ ~file.exists /\ file.name # Stdin)
    => /\ status = "fatal"
       /\ failure = "OpenFailure"
       /\ rd = NoReader
       /\ cleanup = "none"
       /\ ~sniffed
       /\ fHandle = "none"
       /\ gzHandle = "none"

\* NewReader was called on a missing .gz name
OpenFailureWitness ==
  /\ status = "fatal" /\ failure = "OpenFailure"
  /\ ~file.exists /\ file.name = GzName

(***************************************************************************)
(* C10: once the cleanup closure has run, every layer NewReader created is *)
(* closed: the file always, and the gzip stream whenever one was created,  *)
(* by the extension or by sniffing.                                        *)
(***************************************************************************)
CleanupClosesEveryLayer ==
  status = "closed"
    => /\ fHandle = "closed"
       /\ gzHandle # "open"
       /\ rd.compressed => gzHandle = "closed"

\* cleanup ran on a reader whose gzip stream was created by sniffing
CleanupWitness ==
  /\ status = "closed"
  /\ rd.compressed /\ sniffed
  /\ fHandle = "closed" /\ gzHandle = "closed"

(***************************************************************************)
(* C11: the two compression signals are checked in order.  A name ending   *)
(* in .gz gets a gzip stream without any sniffing: valid gzip content      *)
(* opens compressed, anything else aborts NewReader with the gzip          *)
(* initialisation failure and is never read as plain text.  Any other      *)
(* name is sniffed, and the sniffing result alone decides whether a gzip   *)
(* stream is attached.                                                     *)
(***************************************************************************)
SignalsCheckedInOrder ==
  (status # "init" /\ failure # "OpenFailure")
    => IF Ext(file.name) = ".gz"
         THEN /\ ~sniffed
              /\ IF GzHeaderOK(file.raw)
                    THEN status # "fatal" /\ rd.compressed
                    ELSE /\ status = "fatal"
                         /\ failure = "DecompressionInitFailure"
                         /\ rd = NoReader
         ELSE /\ sniffed
              /\ LET looksGz ==
                       SniffGzip(SubSeq(file.raw, 1,
                                        Min(PeekLen, Len(file.raw))))
                 IN IF ~looksGz
                      THEN status # "fatal" /\ ~rd.compressed
                    ELSE IF GzHeaderOK(file.raw)
                      THEN status # "fatal" /\ rd.compressed
                    ELSE status = "fatal"
                         /\ failure = "DecompressionInitFailure"

\* a .gz name holding plain text aborted NewReader
GzNameNotGzipWitness ==
  /\ status = "fatal" /\ failure = "DecompressionInitFailure"
  /\ file.name = GzName /\ file.exists
  /\ Len(file.raw) > 0 /\ ~SniffGzip(file.raw)
  /\ ~sniffed

(***************************************************************************)
(* C12: on a reader without a gzip stream that has only been read with     *)
(* ReadRune, Offset() is the sum of the sizes those calls returned and     *)
(* LineCount() is the number of newline characters they returned; a call   *)
(* that hit the end of the stream returned size 0 and moved neither.       *)
(***************************************************************************)
RuneReadsAddUp ==
  (IsOpened /\ ~rd.compressed /\ runes.only)
    => /\ Offset(rd) = runes.width
       /\ LineCount(rd) = runes.newlines
       /\ \A k \in 1..Len(hist) :
            hist[k].err # "nil"
              => /\ hist[k].size = 0
                 /\ hist[k].off1 = hist[k].off0
                 /\ hist[k].line1 = hist[k].line0

\* a two-byte character, a newline, then the end of the stream
RuneReadsWitness ==
  /\ status = "open" /\ ~rd.compressed /\ runes.only
  /\ nops = 3
  /\ Prev.size = 1 /\ Prev.char = NL
  /\ Last.err = "EOF"
  /\ runes.width = 3 /\ runes.newlines = 1

(***************************************************************************)
(* C13, as claimed: Offset() and LineCount() never decrease across a       *)
(* ReadSlice, ReadString or ReadRune call, and an UnreadRune call takes    *)
(* them back by at most one character: Offset() by at most the size of the *)
(* character last read (at most utf8.UTFMax when the call before was not a *)
(* ReadRune), LineCount() by at most 1.                                    *)
(***************************************************************************)
CountersStepBackOneCharacter ==
  \A k \in 1..Len(hist) :
    LET e == hist[k]
        width == IF k > 1 /\ hist[k - 1].op = "ReadRune"
                   THEN hist[k - 1].size
                   ELSE UTFMax
    IN IF e.op = "UnreadRune"
         THEN /\ e.off0 - e.off1 <= width
              /\ e.line0 - e.line1 <= 1
         ELSE /\ e.off1 >= e.off0
              /\ e.line1 >= e.line0

\* a is the beginning of b
IsPrefix(a, b) == Len(a) <= Len(b) /\ SubSeq(b, 1, Len(a)) = a

\* the calls in the history that read a line
LineReads == {k \in 1..Len(hist) : hist[k].op \in {"ReadSlice", "ReadString"}}

\* for a call that read a line: what ReadSlice returned or would have
\* returned from the reader state the call started in, and what ReadString
OfReadSlice(e) ==
  IF e.op = "ReadSlice"
    THEN [data |-> e.data, err |-> e.err, off1 |-> e.off1, line1 |-> e.line1]
    ELSE [data |-> e.adata, err |-> e.aerr, off1 |-> e.aoff1,
          line1 |-> e.aline1]

OfReadString(e) ==
  IF e.op = "ReadString"
    THEN [data |-> e.data, err |-> e.err, off1 |-> e.off1, line1 |-> e.line1]
    ELSE [data |-> e.adata, err |-> e.aerr, off1 |-> e.aoff1,
          line1 |-> e.aline1]

(***************************************************************************)
(* C14, as claimed: from the same reader state and for the same delimiter, *)
(* ReadString and ReadSlice return the same bytes and the same error and   *)
(* advance Offset() and LineCount() by the same amounts, whatever the      *)
(* length of the line.                                                     *)
(***************************************************************************)
ReadStringSameAsReadSlice ==
  \A k \in LineReads :
    LET a == OfReadSlice(hist[k])
        b == OfReadString(hist[k])
    IN /\ b.data = a.data
       /\ b.err = a.err
       /\ b.off1 = a.off1
       /\ b.line1 = a.line1

(***************************************************************************)
(* C14, amended: the two agree whenever ReadSlice does not stop on a full  *)
(* buffer.  When it does, it returns the first BufSize bytes of the line   *)
(* with ErrBufferFull, and ReadString from the same state returns a longer *)
(* or equal result that begins with those bytes and runs through the       *)
(* delimiter or to the end of the stream, counted in full.                 *)
(***************************************************************************)
ReadStringSameUnlessBufferFull ==
  \A k \in LineReads :
    LET e == hist[k]
        a == OfReadSlice(e)
        b == OfReadString(e)
    IN IF a.err # "ErrBufferFull"
         THEN /\ b.data = a.data
              /\ b.err = a.err
              /\ b.off1 = a.off1
              /\ b.line1 = a.line1
         ELSE /\ Len(a.data) = BufSize
              /\ IsPrefix(a.data, b.data)
              /\ b.err \in {"nil", "EOF"}
              /\ b.err = "nil" => b.data[Len(b.data)] = e.delim
              /\ a.off1 = e.off0 + BufSize
              /\ b.off1 = e.off0 + Len(b.data)
              /\ b.line1 = e.line0 + CountByte(b.data, NL)

\* after one character of a long line was read, ReadString delivered the
\* rest of the line where ReadSlice would have stopped on the full buffer
LongLineWitness ==
  /\ status = "open" /\ HasPrev
  /\ Prev.op = "ReadRune" /\ Prev.err = "nil"
  /\ Last.op = "ReadString" /\ Last.delim = NL /\ Last.err = "nil"
  /\ Len(Last.data) = BufSize + 1
  /\ Last.aerr = "ErrBufferFull"
  /\ Last.line1 = Last.aline1 + 1

(***************************************************************************)
(* C15: content sniffing consumes nothing.  A reader opened on a source    *)
(* that is not gzip starts with Offset() = 0 and LineCount() = 0 at the    *)
(* first byte of the source, the bytes its read calls deliver are the      *)
(* source from its first byte on, and once a read call has reported the    *)
(* end of the stream they are the complete source, for sources longer      *)
(* than, as long as, and shorter than the peeked prefix, and empty ones.   *)
(***************************************************************************)
SniffingConsumesNothing ==
  (IsOpened /\ ~rd.compressed)
    => /\ sniffed
       /\ nops = 0 => /\ Offset(rd) = 0
                      /\ LineCount(rd) = 0
                      /\ Pos(rd.rd) = 0
       /\ ~undone => /\ IsPrefix(got, file.raw)
                     /\ Len(got) = Pos(rd.rd)
       /\ (~undone /\ HasLast /\ Last.err = "EOF") => got = file.raw

\* a source longer than the peeked prefix was read to its end
SniffedThenReadAllWitness ==
  /\ status = "open" /\ ~rd.compressed /\ sniffed /\ ~undone
  /\ Len(file.raw) > PeekLen
  /\ HasPrev /\ Prev.pos0 = 0 /\ Len(Prev.data) > 0
  /\ Last.err = "EOF"
  /\ got = file.raw

\* the positions of the gzip streams in a stack of layers
GzipLayers(l) == {k \in 1..Len(l) : l[k] = "gzip"}

(***************************************************************************)
(* C16: after NewReader succeeded, whether the source is plain, gzip by    *)
(* its extension or gzip by its content, the stream the reader reads from  *)
(* is a bufio.Reader on top of the file, at most one gzip stream is in the *)
(* stack, and the compressed flag is true exactly when there is one.       *)
(***************************************************************************)
OneBufferedStream ==
  IsOpened
    => /\ Len(layers) >= 2
       /\ layers[1] = "file"
       /\ layers[Len(layers)] = "bufio"
       /\ Cardinality(GzipLayers(layers)) <= 1
       /\ rd.compressed <=> GzipLayers(layers) # {}
       /\ rd.compressed <=> gzHandle # "none"
       /\ layers = IF ~rd.compressed THEN <<"file", "bufio">>
                   ELSE IF sniffed THEN <<"file", "bufio", "gzip", "bufio">>
                   ELSE <<"file", "gzip", "bufio">>

\* a gzip stream attached after sniffing, on top of the bufio.Reader that
\* peeked, and read through
SniffedGzipStackWitness ==
  /\ status = "open" /\ sniffed /\ rd.compressed
  /\ layers = <<"file", "bufio", "gzip", "bufio">>
  /\ HasLast /\ Last.err = "nil"

(***************************************************************************)
(* C17, as claimed: an UnreadRune call that returns an error leaves the    *)
(* reader unchanged: Offset(), LineCount() and the position of the next    *)
(* byte to be delivered are the same after the call as before it.          *)
(***************************************************************************)
FailedUndoChangesNothing ==
  \A k \in 1..Len(hist) :
    (hist[k].op = "UnreadRune" /\ hist[k].err # "nil")
      => /\ hist[k].off1 = hist[k].off0
         /\ hist[k].line1 = hist[k].line0
         /\ hist[k].pos1 = hist[k].pos0

=============================================================================
